---- MODULE Spec2Model ----
(***************************************************************************)
(* Model of convert.py: a line-oriented converter that rewrites the        *)
(* literal tokens S1000 and S0 of a G-code-like file to Z-1 and Z1 and     *)
(* writes the result to the fixed file converted_output.nc.                *)
(*                                                                         *)
(* Text is modelled as a sequence of one-character strings.  The file      *)
(* system maps a path to a record [exists, data].  One action models one   *)
(* statement of the script; the unwinding of the with-statement is part of *)
(* every action that raises inside it.                                     *)
(***************************************************************************)
EXTENDS Integers, Sequences, FiniteSets, TLC

VARIABLES
    argv,      \* sys.argv[1:], the command-line arguments after the script name
    fs,        \* the file system: path -> [exists, data]
    fs0,       \* history: the file system when the program started
    pc,        \* the statement about to run
    inH,       \* state of infile:  "unopened" | "open" | "closed"
    outH,      \* state of outfile: "unopened" | "open" | "closed"
    inPos,     \* read offset of infile (characters consumed)
    line,      \* the script's variable `line`
    line0,     \* history: `line` as the iterator delivered it
    reads,     \* history: <<from, to>> offsets of each line the iterator delivered
    written,   \* history: the text of each outfile.write call
    stdout,    \* messages printed to standard output
    exit,      \* process exit status, -1 while running
    err        \* "none" | "usage" | the operation whose exception ended the run

vars == <<argv, fs, fs0, pc, inH, outH, inPos, line, line0, reads, written,
          stdout, exit, err>>

-----------------------------------------------------------------------------
(* Characters and literals of the script *)

LF == "\n"
CR == "\r"

S1000 == <<"S", "1", "0", "0", "0">>
S0 == <<"S", "0">>
Zm1 == <<"Z", "-", "1">>
Z1 == <<"Z", "1">>

output_path == "converted_output.nc"
OtherPath == "job.nc"
Paths == {OtherPath, output_path}

UsageMsg == "Usage: python convert.py <input_file>"
ConfirmMsg == "Converted file written to converted_output.nc"

-----------------------------------------------------------------------------
(* Bounds of the model *)

MaxArgs == 2            \* longest argument list
MaxFileTokens == 3      \* tokens in the content of job.nc
MaxOldTokens == 1       \* tokens in the prior content of converted_output.nc
MaxLineTokens == 4      \* tokens in a line of the line-level specification

-----------------------------------------------------------------------------
(* Text helpers *)

\* p occurs in s starting at index i
MatchAt(s, p, i) ==
    /\ i >= 1
    /\ i + Len(p) - 1 <= Len(s)
    /\ \A k \in 1..Len(p) : s[i + k - 1] = p[k]

Occurrences(s, p) == {i \in 1..Len(s) : MatchAt(s, p, i)}

Contains(s, p) == Occurrences(s, p) # {}

RECURSIVE Concat(_)
Concat(ss) == IF ss = <<>> THEN <<>> ELSE Head(ss) \o Concat(Tail(ss))

\* all concatenations of at most n tokens
TokenTexts(tokens, n) ==
    {Concat(t) : t \in UNION {[1..k -> tokens] : k \in 0..n}}

\* str.replace(old, new, 1): only the leftmost occurrence is replaced
RECURSIVE ReplaceFirstFrom(_, _, _, _)
ReplaceFirstFrom(s, old, new, i) ==
    IF i > Len(s) THEN <<>>
    ELSE IF MatchAt(s, old, i)
         THEN new \o SubSeq(s, i + Len(old), Len(s))
         ELSE <<s[i]>> \o ReplaceFirstFrom(s, old, new, i + 1)

ReplaceFirstOnly(s, old, new) == ReplaceFirstFrom(s, old, new, 1)

\* str.replace(old, new): every non-overlapping occurrence, left to right
RECURSIVE ReplaceFrom(_, _, _, _)
ReplaceFrom(s, old, new, i) ==
    IF i > Len(s) THEN <<>>
    ELSE IF MatchAt(s, old, i)
         THEN new \o ReplaceFrom(s, old, new, i + Len(old))
         ELSE <<s[i]>> \o ReplaceFrom(s, old, new, i + 1)

Replace(s, old, new) == ReplaceFrom(s, old, new, 1)

\* a rule list with the second replacement pasted from the first
RulesPasted == <<[old |-> S1000, new |-> Zm1], [old |-> S0, new |-> Zm1]>>

\* a rule list whose first pattern lost its last character
RulesTypo == <<[old |-> <<"S", "1", "0", "0">>, new |-> Zm1], [old |-> S0, new |-> Z1]>>

\* the two replace calls of the loop body, in source order
Rules == <<[old |-> S1000, new |-> Zm1], [old |-> S0, new |-> Z1]>>

\* the loop body's effect on one line
ConvertLine(s) ==
    Replace(Replace(s, Rules[1].old, Rules[1].new), Rules[2].old, Rules[2].new)

-----------------------------------------------------------------------------
(* Text-mode reading with newline='' *)

Min(S) == CHOOSE x \in S : \A y \in S : x <= y

\* offset of the last character of the line that starts after offset pos:
\* a line ends at LF, CR or CR LF, or at the end of the file
NextLineEnd(content, pos) ==
    LET terms == {e \in (pos + 1)..Len(content) : content[e] \in {LF, CR}}
    IN  IF terms = {} THEN Len(content)
        ELSE LET e == Min(terms)
             IN  IF content[e] = CR /\ e < Len(content) /\ content[e + 1] = LF
                 THEN e + 1
                 ELSE e

\* newline=None: the terminator of a delivered line is translated to LF
ReadLineTranslated(content, pos) ==
    LET e == NextLineEnd(content, pos)
        raw == SubSeq(content, pos + 1, e)
    IN  IF raw # <<>> /\ raw[Len(raw)] = LF /\ Len(raw) >= 2 /\ raw[Len(raw) - 1] = CR
        THEN SubSeq(raw, 1, Len(raw) - 2) \o <<LF>>
        ELSE IF raw # <<>> /\ raw[Len(raw)] = CR
             THEN SubSeq(raw, 1, Len(raw) - 1) \o <<LF>>
             ELSE raw

\* newline='': the line is delivered with its terminator untranslated
ReadLine(content, pos) == SubSeq(content, pos + 1, NextLineEnd(content, pos))

-----------------------------------------------------------------------------
(* Initial states *)

FileTokens == {S1000, S0, <<"G">>, <<LF>>, <<CR>>}
LineTokens == {S1000, S0, <<"S">>, <<"1">>, <<"0">>, <<"Z">>, <<"-">>, <<"G">>}

Absent == [exists |-> FALSE, data |-> <<>>]
File(d) == [exists |-> TRUE, data |-> d]

ArgLists == UNION {[1..k -> Paths] : k \in 0..MaxArgs}

Init ==
    /\ argv \in ArgLists
    /\ \E a \in {Absent} \cup {File(d) : d \in TokenTexts(FileTokens, MaxFileTokens)},
          b \in {Absent} \cup {File(d) : d \in TokenTexts(FileTokens, MaxOldTokens)} :
          fs = [p \in Paths |-> IF p = OtherPath THEN a ELSE b]
    /\ fs0 = fs
    /\ pc = "check"
    /\ inH = "unopened"
    /\ outH = "unopened"
    /\ inPos = 0
    /\ line = <<>>
    /\ line0 = <<>>
    /\ reads = <<>>
    /\ written = <<>>
    /\ stdout = <<>>
    /\ exit = -1
    /\ err = "none"

\* the program inside the first loop iteration, `line` just delivered
InitLine ==
    /\ argv = <<OtherPath>>
    /\ line0 \in TokenTexts(LineTokens, MaxLineTokens)
    /\ line0 # <<>>
    /\ line = line0
    /\ fs0 = [p \in Paths |-> IF p = OtherPath THEN File(line0) ELSE Absent]
    /\ fs = [fs0 EXCEPT ![output_path] = File(<<>>)]
    /\ pc = "replace1"
    /\ inH = "open"
    /\ outH = "open"
    /\ inPos = Len(line0)
    /\ reads = <<<<1, Len(line0)>>>>
    /\ written = <<>>
    /\ stdout = <<>>
    /\ exit = -1
    /\ err = "none"

-----------------------------------------------------------------------------
(* Control helpers *)

\* len(sys.argv) < 2: only the empty argument list is rejected
ArgCountWrongLowOnly(args) == Len(args) + 1 < 2

\* len(sys.argv) != 2, sys.argv[0] being the script name
ArgCountWrong(args) == Len(args) + 1 # 2

\* a handle opened without a with-statement is left as it is
ReleaseLeak(h) == h

\* the with-statement's exit: an open handle is closed
Release(h) == IF h = "open" THEN "closed" ELSE h

\* an exception swallowed by a bare except: the script goes on to the print
RaiseSwallowed(op) ==
    /\ pc' = "print"
    /\ err' = op
    /\ UNCHANGED <<exit, stdout>>

\* an unhandled exception: traceback on stderr, exit status 1
Raise(op) ==
    /\ pc' = "done"
    /\ err' = op
    /\ exit' = 1
    /\ UNCHANGED stdout

-----------------------------------------------------------------------------
(* Actions *)

\* lines 3-5: argument count check, usage message and sys.exit(1)
Usage ==
    /\ pc = "check"
    /\ ArgCountWrong(argv)
    /\ stdout' = Append(stdout, UsageMsg)
    /\ exit' = 1
    /\ err' = "usage"
    /\ pc' = "done"
    /\ UNCHANGED <<argv, fs, fs0, inH, outH, inPos, line, line0, reads, written>>

\* lines 3, 7: the check passes, output_path is bound
CheckOk ==
    /\ pc = "check"
    /\ ~ArgCountWrong(argv)
    /\ pc' = "open_in"
    /\ UNCHANGED <<argv, fs, fs0, inH, outH, inPos, line, line0, reads, written,
                   stdout, exit, err>>

\* line 9: open(sys.argv[1], 'r', newline='') succeeds
OpenIn ==
    /\ pc = "open_in"
    /\ fs[argv[1]].exists
    /\ inH' = "open"
    /\ inPos' = 0
    /\ pc' = "open_out"
    /\ UNCHANGED <<argv, fs, fs0, outH, line, line0, reads, written, stdout, exit, err>>

\* the output is opened (created or truncated) before the input open fails
OpenInFailOutputFirst ==
    /\ pc = "open_in"
    /\ fs' = [fs EXCEPT ![output_path] = File(<<>>)]
    /\ outH' = "closed"
    /\ Raise("open_in")
    /\ UNCHANGED <<argv, fs0, inH, inPos, line, line0, reads, written>>

\* line 9: the open raises: the path does not exist, or (environment's
\* choice) it exists but cannot be opened for reading
OpenInFail ==
    /\ pc = "open_in"
    /\ Raise("open_in")
    /\ UNCHANGED <<argv, fs, fs0, inH, outH, inPos, line, line0, reads, written>>

\* line 10: open(output_path, 'w', newline='') creates or truncates the file
OpenOut ==
    /\ pc = "open_out"
    /\ fs' = [fs EXCEPT ![output_path] = File(<<>>)]
    /\ outH' = "open"
    /\ pc' = "for"
    /\ UNCHANGED <<argv, fs0, inH, inPos, line, line0, reads, written, stdout, exit, err>>

\* line 10: the open raises (environment's choice); infile's with-exit runs
OpenOutFail ==
    /\ pc = "open_out"
    /\ inH' = Release(inH)
    /\ Raise("open_out")
    /\ UNCHANGED <<argv, fs, fs0, outH, inPos, line, line0, reads, written>>

\* line 11: the iterator delivers the next line of the file
ForNext ==
    /\ pc = "for"
    /\ inPos < Len(fs[argv[1]].data)
    /\ line' = ReadLine(fs[argv[1]].data, inPos)
    /\ line0' = line'
    /\ inPos' = NextLineEnd(fs[argv[1]].data, inPos)
    /\ reads' = Append(reads, <<inPos + 1, inPos'>>)
    /\ pc' = "replace1"
    /\ UNCHANGED <<argv, fs, fs0, inH, outH, written, stdout, exit, err>>

\* line 11: the iterator is exhausted; the loop ends
ForEnd ==
    /\ pc = "for"
    /\ inPos >= Len(fs[argv[1]].data)
    /\ pc' = "with_exit"
    /\ UNCHANGED <<argv, fs, fs0, inH, outH, inPos, line, line0, reads, written,
                   stdout, exit, err>>

\* line 11: reading raises (environment's choice); both with-exits run
ReadFail ==
    /\ pc = "for"
    /\ outH' = Release(outH)
    /\ inH' = Release(inH)
    /\ Raise("read")
    /\ UNCHANGED <<argv, fs, fs0, inPos, line, line0, reads, written>>

\* line 12: line = line.replace('S1000', 'Z-1')
Line12 ==
    /\ pc = "replace1"
    /\ line' = Replace(line, Rules[1].old, Rules[1].new)
    /\ pc' = "replace2"
    /\ UNCHANGED <<argv, fs, fs0, inH, outH, inPos, line0, reads, written,
                   stdout, exit, err>>

\* line 13: line = line.replace('S0', 'Z1')
Line13 ==
    /\ pc = "replace2"
    /\ line' = Replace(line, Rules[2].old, Rules[2].new)
    /\ pc' = "write"
    /\ UNCHANGED <<argv, fs, fs0, inH, outH, inPos, line0, reads, written,
                   stdout, exit, err>>

\* line 14: outfile.write(line); the text goes to the end of the output file
Write ==
    /\ pc = "write"
    /\ fs' = [fs EXCEPT ![output_path].data = @ \o line]
    /\ written' = Append(written, line)
    /\ pc' = "for"
    /\ UNCHANGED <<argv, fs0, inH, outH, inPos, line, line0, reads, stdout, exit, err>>

\* line 14: writing raises (environment's choice); both with-exits run
WriteFail ==
    /\ pc = "write"
    /\ outH' = Release(outH)
    /\ inH' = Release(inH)
    /\ Raise("write")
    /\ UNCHANGED <<argv, fs, fs0, inPos, line, line0, reads, written>>

\* lines 9-10: normal exit of the with-statement: outfile, then infile, closed
WithExit ==
    /\ pc = "with_exit"
    /\ outH' = Release(outH)
    /\ inH' = Release(inH)
    /\ pc' = "print"
    /\ UNCHANGED <<argv, fs, fs0, inPos, line, line0, reads, written, stdout, exit, err>>

\* lines 9-10: closing outfile raises (environment's choice); both handles
\* are closed all the same
WithExitFail ==
    /\ pc = "with_exit"
    /\ outH' = Release(outH)
    /\ inH' = Release(inH)
    /\ Raise("close")
    /\ UNCHANGED <<argv, fs, fs0, inPos, line, line0, reads, written>>

\* line 16: the confirmation message, then the script ends with status 0
PrintConfirm ==
    /\ pc = "print"
    /\ stdout' = Append(stdout, ConfirmMsg)
    /\ exit' = 0
    /\ pc' = "done"
    /\ UNCHANGED <<argv, fs, fs0, inH, outH, inPos, line, line0, reads, written, err>>

Next ==
    \/ Usage
    \/ CheckOk
    \/ OpenIn
    \/ OpenInFail
    \/ OpenOut
    \/ OpenOutFail
    \/ ForNext
    \/ ForEnd
    \/ ReadFail
    \/ Line12
    \/ Line13
    \/ Write
    \/ WriteFail
    \/ WithExit
    \/ WithExitFail
    \/ PrintConfirm

Spec == Init /\ [][Next]_vars

\* the loop body's two replace calls on one delivered line
NextLine ==
    \/ Line12
    \/ Line13

SpecLine == InitLine /\ [][NextLine]_vars

-----------------------------------------------------------------------------
(* Properties *)

\* number of occurrences of S1000 in s that start before index i
S1000Before(s, i) == Cardinality({j \in Occurrences(s, S1000) : j < i})

\* C1: when both rules have run on a line, every occurrence of S1000 in the
\* delivered line stands in the result as exactly Z-1 (at its place, shifted
\* by the two characters each earlier S1000 lost), the result is shorter by
\* exactly two characters per occurrence, and no S1000 is left in it.
C1_S1000BecomesZm1 ==
    pc = "write" =>
        /\ \A i \in Occurrences(line0, S1000) :
              MatchAt(line, Zm1, i - 2 * S1000Before(line0, i))
        /\ Len(line) = Len(line0) - 2 * Cardinality(Occurrences(line0, S1000))
        /\ ~Contains(line, S1000)

C1_Witness ==
    /\ pc = "write"
    /\ Cardinality(Occurrences(line0, S1000)) >= 2
    /\ Contains(line0, <<"S", "1", "0", "0", "0", "0">>)
    /\ Cardinality(Occurrences(line, Zm1)) >= 2

\* C2: when both rules have run on a line, every occurrence of S0 in the
\* delivered line stands in the result as Z1, no S0 is left in the result,
\* and the S1000 rule neither created nor removed an occurrence of S0.
C2_S0BecomesZ1 ==
    /\ pc = "write" =>
          /\ \A i \in Occurrences(line0, S0) :
                MatchAt(line, Z1, i - 2 * S1000Before(line0, i))
          /\ ~Contains(line, S0)
    /\ pc = "replace2" =>
          Cardinality(Occurrences(line, S0)) = Cardinality(Occurrences(line0, S0))

C2_Witness ==
    /\ pc = "write"
    /\ Contains(line0, S1000)
    /\ \E i \in Occurrences(line0, S0) : S1000Before(line0, i) >= 1
    /\ Contains(line, Z1)

\* C3: every delivered line that holds neither S1000 nor S0 is written as the
\* very characters the file holds at the line's offsets, terminator included,
\* and the output file holds exactly the texts written, in order.
C3_UnmatchedLineUnchanged ==
    /\ \A i \in DOMAIN written :
          LET seg == SubSeq(fs0[argv[1]].data, reads[i][1], reads[i][2])
          IN  (~Contains(seg, S1000) /\ ~Contains(seg, S0)) => written[i] = seg
    /\ outH # "unopened" => fs[output_path].data = Concat(written)

C3_Witness ==
    /\ pc = "done"
    /\ err = "none"
    /\ fs0[argv[1]].data = <<"G", CR, LF>>
    /\ written = <<<<"G", CR, LF>>>>
    /\ fs[output_path].data = <<"G", CR, LF>>

\* the lines of a text, as the iterator delivers them
RECURSIVE LinesFrom(_, _)
LinesFrom(content, pos) ==
    IF pos >= Len(content) THEN <<>>
    ELSE <<SubSeq(content, pos + 1, NextLineEnd(content, pos))>>
             \o LinesFrom(content, NextLineEnd(content, pos))

LinesOf(content) == LinesFrom(content, 0)

\* C4: after a completed run with one argument, the lines of the output file
\* are the converted lines of the input file as it was at the start, one for
\* one and in order, whatever path the argument names.
C4_OneOutputLinePerInputLine ==
    (pc = "done" /\ err = "none" /\ Len(argv) = 1) =>
        LET inLines == LinesOf(fs0[argv[1]].data)
        IN  LinesOf(fs[output_path].data)
                = [i \in 1..Len(inLines) |-> ConvertLine(inLines[i])]

\* C5: a run with zero or with two or more arguments prints the usage
\* message, exits with status 1, opens no file, leaves the file system as it
\* was, writes nothing and prints no confirmation.
C5_UsageError ==
    (pc = "done" /\ Len(argv) # 1) =>
        /\ stdout = <<UsageMsg>>
        /\ exit = 1
        /\ err = "usage"
        /\ inH = "unopened"
        /\ outH = "unopened"
        /\ fs = fs0
        /\ written = <<>>
        /\ reads = <<>>

C5_Witness ==
    /\ pc = "done"
    /\ Len(argv) = 2
    /\ argv[1] = OtherPath
    /\ fs0[OtherPath].exists
    /\ ~fs[output_path].exists
    /\ stdout = <<UsageMsg>>

\* C6: the file the argument names has the same content after the run as
\* before it, whatever path the argument names.
C6_InputNotMutated ==
    (pc = "done" /\ Len(argv) = 1) => fs[argv[1]] = fs0[argv[1]]

\* C7: the confirmation is printed at most once; when it is printed every
\* line has been written, both files are closed and the run ends with status
\* 0; a run that ends without error has printed it; a run that ends by the
\* usage error or by an I/O error has not.
C7_ConfirmationOnSuccessOnly ==
    /\ Cardinality({i \in DOMAIN stdout : stdout[i] = ConfirmMsg}) <= 1
    /\ (\E i \in DOMAIN stdout : stdout[i] = ConfirmMsg) =>
          /\ pc = "done"
          /\ exit = 0
          /\ err = "none"
          /\ inH = "closed"
          /\ outH = "closed"
          /\ inPos >= Len(fs[argv[1]].data)
          /\ Len(written) = Len(reads)
          /\ fs[output_path].data = Concat(written)
    /\ (pc = "done" /\ err = "none") => (stdout = <<ConfirmMsg>> /\ exit = 0)
    /\ (pc = "done" /\ err # "none") =>
          (exit = 1 /\ \A i \in DOMAIN stdout : stdout[i] # ConfirmMsg)

C7_Witness ==
    /\ pc = "done"
    /\ stdout = <<ConfirmMsg>>
    /\ Len(written) >= 2
    /\ exit = 0

\* C8: when the run has ended no handle is open: none was opened on the usage
\* exit and when the input open failed, the input handle is closed when the
\* output open failed, and both are closed after an error in the loop or at
\* the close and after normal completion.
C8_NoHandleLeftOpen ==
    pc = "done" =>
        /\ inH # "open"
        /\ outH # "open"
        /\ err \in {"usage", "open_in"} => (inH = "unopened" /\ outH = "unopened")
        /\ err = "open_out" => (inH = "closed" /\ outH = "unopened")
        /\ err \in {"read", "write", "close", "none"} =>
              (inH = "closed" /\ outH = "closed")

C8_Witness ==
    /\ pc = "done"
    /\ err = "write"
    /\ written # <<>>
    /\ inH = "closed"
    /\ outH = "closed"

\* C9: when the input cannot be opened the run ends with a failure and the
\* file system is as it was: converted_output.nc is neither created nor
\* truncated, nothing is written and nothing is printed.
C9_InputOpenFailure ==
    (pc = "done" /\ err = "open_in") =>
        /\ exit = 1
        /\ fs = fs0
        /\ inH = "unopened"
        /\ outH = "unopened"
        /\ written = <<>>
        /\ stdout = <<>>

C9_Witness ==
    /\ pc = "done"
    /\ err = "open_in"
    /\ Len(argv) = 1
    /\ ~fs0[argv[1]].exists
    /\ fs[output_path].exists
    /\ fs[output_path].data # <<>>

\* both patterns substituted in one left-to-right pass over the original text
RECURSIVE SimultaneousFrom(_, _)
SimultaneousFrom(s, i) ==
    IF i > Len(s) THEN <<>>
    ELSE IF MatchAt(s, S1000, i) THEN Zm1 \o SimultaneousFrom(s, i + Len(S1000))
    ELSE IF MatchAt(s, S0, i) THEN Z1 \o SimultaneousFrom(s, i + Len(S0))
    ELSE <<s[i]>> \o SimultaneousFrom(s, i + 1)

Simultaneous(s) == SimultaneousFrom(s, 1)

\* C10: the two rules applied one after the other give the same line as both
\* patterns substituted simultaneously in one pass over the delivered line.
C10_SequentialEqualsSimultaneous ==
    pc = "write" => line = Simultaneous(line0)

C10_Witness ==
    /\ pc = "write"
    /\ Cardinality(Occurrences(line0, S1000)) >= 1
    /\ Cardinality(Occurrences(line0, S0)) >= 2
    /\ line = Simultaneous(line0)
    /\ line # line0

====
